---- MODULE Spec2Model ----
(***************************************************************************)
(* Model of train.py: the training script of the visual dialog starter.    *)
(* One execution of the script is a "run".  The model covers a first run   *)
(* on an empty checkpoint directory followed by a later run that may be    *)
(* given, as -load_path, any file the first run left on disk.              *)
(*                                                                         *)
(* Learning rates are exact rationals <<numerator, denominator>> in lowest *)
(* terms.  Encoder and decoder parameters are abstracted to the number of  *)
(* optimizer updates applied to them ("ver"); the encoder also carries the *)
(* args namespace it was built with (encoder.args).  Both runs use one     *)
(* save_path, so the later run may overwrite files of the first; "written" *)
(* records what the current run itself has written.                        *)
(***************************************************************************)
EXTENDS Integers, Sequences, FiniteSets, TLC

\* ------------------------------------------------------------------------
\* bounds of the model
\* ------------------------------------------------------------------------
MaxEpochs == 2
MaxIter == 2
MaxSaveStep == 2

\* ------------------------------------------------------------------------
\* rationals
\* ------------------------------------------------------------------------
RECURSIVE GCD(_, _)
GCD(a, b) == IF b = 0 THEN a ELSE GCD(b, a % b)

Norm(r) == <<r[1] \div GCD(r[1], r[2]), r[2] \div GCD(r[1], r[2])>>

RMul(r, s) == Norm(<<r[1] * s[1], r[2] * s[2]>>)

RLess(r, s) == r[1] * s[2] < s[1] * r[2]

RLeq(r, s) == r[1] * s[2] <= s[1] * r[2]

RECURSIVE RPow(_, _)
RPow(r, n) == IF n = 0 THEN <<1, 1>> ELSE RMul(r, RPow(r, n - 1))

\* ------------------------------------------------------------------------
\* command-line options (argparse, lines 19-43) and the data set
\* ------------------------------------------------------------------------
NumEpochsChoices == 0..MaxEpochs
IterChoices == 1..MaxIter
SaveStepChoices == (-1)..MaxSaveStep
LrChoices == {<<1, 1>>, <<1, 2>>}
MinLrChoices == {<<1, 2>>, <<3, 4>>}
DecayChoices == {<<1, 2>>, <<1, 1>>}

NoPath == [kind |-> "none", n |-> 0]
EpochFile(e) == [kind |-> "model_epoch", n |-> e]
FinalFile == [kind |-> "model_final", n |-> 0]

\* Python's a % b for b # 0: the result takes the sign of the divisor.
PyMod(a, b) == IF b > 0 THEN a % b ELSE -((-a) % (-b))

NoModule == [num_epochs |-> -1, ver |-> -1]
NoArgs == [num_epochs |-> -1, lr |-> <<0, 1>>, lr_decay_rate |-> <<0, 1>>,
           min_lr |-> <<0, 1>>, load_path |-> NoPath, save_step |-> 0,
           iter_per_epoch |-> 0]
NoOptimizer == [lr |-> <<0, 1>>, grad |-> "none"]
NoScheduler == [base_lr |-> <<0, 1>>, gamma |-> <<0, 1>>, last_epoch |-> -1]
NoStart == [encoder |-> NoModule, decoder |-> NoModule, lr |-> <<0, 1>>]

VARIABLES run, pc, error, disk, args, model_args, encoder, decoder,
          optimizer, scheduler, epoch, i, fwd,
          written, iterTrace, lrUsed, lrLeft, begun, cmdline

vars == <<run, pc, error, disk, args, model_args, encoder, decoder,
          optimizer, scheduler, epoch, i, fwd,
          written, iterTrace, lrUsed, lrLeft, begun, cmdline>>

loopVars == <<epoch, i>>
histVars == <<written, iterTrace, lrUsed, lrLeft, begun, cmdline>>

Init ==
    /\ run = "first"
    /\ pc = "start"
    /\ error = "none"
    /\ disk = [f \in {} |-> NoStart]
    /\ args = NoArgs
    /\ model_args = [num_epochs |-> -1]
    /\ encoder = NoModule
    /\ decoder = NoModule
    /\ optimizer = NoOptimizer
    /\ scheduler = NoScheduler
    /\ epoch = 0
    /\ i = 0
    /\ fwd = "none"
    /\ written = <<>>
    /\ iterTrace = <<>>
    /\ lrUsed = <<0, 1>>
    /\ lrLeft = <<0, 1>>
    /\ begun = NoStart
    /\ cmdline = NoArgs

\* ------------------------------------------------------------------------
\* lines 43-139: parse the options, read the saved model, build the
\* modules, the optimizer and the scheduler
\* ------------------------------------------------------------------------
ParsedArgs ==
    {[num_epochs |-> ne, lr |-> lr, lr_decay_rate |-> g, min_lr |-> m,
      load_path |-> lp, save_step |-> ss, iter_per_epoch |-> ipe] :
        ne \in NumEpochsChoices, lr \in LrChoices, g \in DecayChoices,
        m \in MinLrChoices, lp \in {NoPath} \cup DOMAIN disk,
        ss \in SaveStepChoices, ipe \in IterChoices}

\* optim.Adam(..., lr=lr) followed by StepLR(optimizer, step_size=1, gamma)
NewOptimizer(lr) == [lr |-> lr, grad |-> "none"]
NewScheduler(lr, gamma) == [base_lr |-> lr, gamma |-> gamma, last_epoch |-> 0]

\* components['lr'] raises KeyError when the file has no 'lr' entry
HasLr(components) == "lr" \in DOMAIN components

SetupFresh(a) ==
    /\ a.load_path = NoPath
    /\ args' = a
    /\ model_args' = [num_epochs |-> a.num_epochs]
    /\ encoder' = [num_epochs |-> a.num_epochs, ver |-> 0]
    /\ decoder' = [num_epochs |-> a.num_epochs, ver |-> 0]
    /\ optimizer' = NewOptimizer(a.lr)
    /\ scheduler' = NewScheduler(a.lr, a.lr_decay_rate)
    /\ lrLeft' = a.lr
    /\ begun' = [encoder |-> encoder', decoder |-> decoder', lr |-> a.lr]
    /\ pc' = "epoch_loop"
    /\ error' = "none"

SetupLoaded(a) ==
    /\ a.load_path # NoPath
    /\ HasLr(disk[a.load_path])
    /\ LET components == disk[a.load_path]
       IN /\ args' = [a EXCEPT !.lr = components.lr]
          /\ model_args' = [num_epochs |-> components.encoder.num_epochs]
          /\ encoder' = components.encoder
          /\ decoder' = components.decoder
          /\ optimizer' = NewOptimizer(components.lr)
          /\ scheduler' = NewScheduler(components.lr, a.lr_decay_rate)
          /\ lrLeft' = components.lr
          /\ begun' = [encoder |-> components.encoder,
                       decoder |-> components.decoder, lr |-> components.lr]
    /\ pc' = "epoch_loop"
    /\ error' = "none"

SetupKeyError(a) ==
    /\ a.load_path # NoPath
    /\ ~HasLr(disk[a.load_path])
    /\ args' = a
    /\ model_args' = [num_epochs |-> disk[a.load_path].encoder.num_epochs]
    /\ pc' = "crashed"
    /\ error' = "KeyError"
    /\ UNCHANGED <<encoder, decoder, optimizer, scheduler, lrLeft, begun>>

Setup ==
    /\ pc = "start"
    /\ \E a \in ParsedArgs :
          /\ cmdline' = a
          /\ \/ SetupFresh(a)
             \/ SetupLoaded(a)
             \/ SetupKeyError(a)
    /\ UNCHANGED <<run, disk, epoch, i, fwd, written, iterTrace, lrUsed>>

\* ------------------------------------------------------------------------
\* lines 143-144: the two loop heads
\* ------------------------------------------------------------------------
\* for epoch in range(1, model_args.num_epochs + 1)
EpochLoop ==
    /\ pc = "epoch_loop"
    /\ IF epoch < model_args.num_epochs
         THEN /\ epoch' = epoch + 1
              /\ i' = 0
              /\ pc' = "batch_loop"
         ELSE /\ pc' = "final_save"
              /\ UNCHANGED <<epoch, i>>
    /\ UNCHANGED <<run, error, disk, args, model_args, encoder, decoder,
                   optimizer, scheduler, fwd, histVars>>

\* for i, batch in enumerate(dataloader): iter_per_epoch batches per epoch
BatchLoop ==
    /\ pc = "batch_loop"
    /\ IF i < args.iter_per_epoch
         THEN /\ pc' = "zero_grad"
              /\ iterTrace' = <<>>
         ELSE /\ pc' = "checkpoint"
              /\ UNCHANGED iterTrace
    /\ UNCHANGED <<run, error, disk, args, model_args, encoder, decoder,
                   optimizer, scheduler, loopVars, fwd, written, lrUsed,
                   lrLeft, begun, cmdline>>

\* ------------------------------------------------------------------------
\* lines 145-156: one iteration up to the optimizer step
\* ------------------------------------------------------------------------
ZeroGrad ==
    /\ pc = "zero_grad"
    /\ optimizer' = [optimizer EXCEPT !.grad = "zero"]
    /\ iterTrace' = Append(iterTrace, "zero_grad")
    /\ pc' = "encoder"
    /\ UNCHANGED <<run, error, disk, args, model_args, encoder, decoder,
                   scheduler, loopVars, fwd, written, lrUsed, lrLeft, begun,
                   cmdline>>

EncoderForward ==
    /\ pc = "encoder"
    /\ fwd' = "enc_out"
    /\ iterTrace' = Append(iterTrace, "encoder")
    /\ pc' = "decoder"
    /\ UNCHANGED <<run, error, disk, args, model_args, encoder, decoder,
                   optimizer, scheduler, loopVars, written, lrUsed, lrLeft,
                   begun, cmdline>>

DecoderForward ==
    /\ pc = "decoder"
    /\ fwd = "enc_out"
    /\ fwd' = "dec_out"
    /\ iterTrace' = Append(iterTrace, "decoder")
    /\ pc' = "criterion"
    /\ UNCHANGED <<run, error, disk, args, model_args, encoder, decoder,
                   optimizer, scheduler, loopVars, written, lrUsed, lrLeft,
                   begun, cmdline>>

Criterion ==
    /\ pc = "criterion"
    /\ fwd = "dec_out"
    /\ fwd' = "cur_loss"
    /\ iterTrace' = Append(iterTrace, "criterion")
    /\ pc' = "backward"
    /\ UNCHANGED <<run, error, disk, args, model_args, encoder, decoder,
                   optimizer, scheduler, loopVars, written, lrUsed, lrLeft,
                   begun, cmdline>>

Backward ==
    /\ pc = "backward"
    /\ fwd = "cur_loss"
    /\ optimizer' = [optimizer EXCEPT !.grad = "computed"]
    /\ iterTrace' = Append(iterTrace, "backward")
    /\ pc' = "opt_step"
    /\ UNCHANGED <<run, error, disk, args, model_args, encoder, decoder,
                   scheduler, loopVars, fwd, written, lrUsed, lrLeft, begun,
                   cmdline>>

\* scheduler.step() of StepLR(step_size=1): lr = base_lr * gamma^last_epoch
SchedulerStep(sch) == [sch EXCEPT !.last_epoch = sch.last_epoch + 1]
SchedulerLr(sch) == RMul(sch.base_lr, RPow(sch.gamma, sch.last_epoch))

\* optimizer.step(): the update of the parameters with the group's lr
OptimizerStep_SchedulerFirst ==
    /\ pc = "opt_step"
    /\ optimizer.grad = "computed"
    /\ encoder' = [encoder EXCEPT !.ver = encoder.ver + 1]
    /\ decoder' = [decoder EXCEPT !.ver = decoder.ver + 1]
    /\ scheduler' = SchedulerStep(scheduler)
    /\ optimizer' = [optimizer EXCEPT !.lr = SchedulerLr(scheduler')]
    /\ lrUsed' = optimizer'.lr
    /\ iterTrace' = Append(iterTrace, "opt_step")
    /\ pc' = "lr_decay"
    /\ UNCHANGED <<run, error, disk, args, model_args, loopVars, fwd,
                   written, lrLeft, begun, cmdline>>

OptimizerStep ==
    /\ pc = "opt_step"
    /\ optimizer.grad = "computed"
    /\ encoder' = [encoder EXCEPT !.ver = encoder.ver + 1]
    /\ decoder' = [decoder EXCEPT !.ver = decoder.ver + 1]
    /\ lrUsed' = optimizer.lr
    /\ iterTrace' = Append(iterTrace, "opt_step")
    /\ pc' = "lr_decay"
    /\ UNCHANGED <<run, error, disk, args, model_args, optimizer, scheduler,
                   loopVars, fwd, written, lrLeft, begun, cmdline>>

\* ------------------------------------------------------------------------
\* lines 163-180: the rest of the iteration (learning-rate decay)
\* ------------------------------------------------------------------------
LrDecay ==
    /\ pc = "lr_decay"
    /\ IF RLess(args.min_lr, optimizer.lr)
         THEN /\ scheduler' = SchedulerStep(scheduler)
              /\ optimizer' = [optimizer EXCEPT !.lr = SchedulerLr(scheduler')]
         ELSE UNCHANGED <<optimizer, scheduler>>
    /\ lrLeft' = optimizer'.lr
    /\ iterTrace' = Append(iterTrace, "lr_decay")
    /\ i' = i + 1
    /\ pc' = "batch_loop"
    /\ UNCHANGED <<run, error, disk, args, model_args, encoder, decoder,
                   epoch, fwd, written, lrUsed, begun, cmdline>>

\* ------------------------------------------------------------------------
\* lines 185-193: checkpoints and the final model
\* ------------------------------------------------------------------------
Saved(f, data) ==
    [n \in DOMAIN disk \cup {f} |-> IF n = f THEN data ELSE disk[n]]

WriteEvent(f, data) ==
    [name |-> f, data |-> data, epoch |-> epoch, i |-> i, pc |-> pc,
     encoder |-> encoder, decoder |-> decoder, lr |-> optimizer.lr]

\* epoch % args.save_step == 0
SaveDue_OffByOne(e, save_step) == PyMod(e + 1, save_step) = 0

SaveDue(e, save_step) == PyMod(e, save_step) = 0

Checkpoint ==
    /\ pc = "checkpoint"
    /\ IF args.save_step = 0
         THEN /\ pc' = "crashed"
              /\ error' = "ZeroDivisionError"
              /\ UNCHANGED <<disk, written>>
         ELSE /\ pc' = "epoch_loop"
              /\ UNCHANGED error
              /\ IF SaveDue(epoch, args.save_step)
                   THEN LET data == [encoder |-> encoder, decoder |-> decoder,
                                     lr |-> optimizer.lr]
                        IN /\ disk' = Saved(EpochFile(epoch), data)
                           /\ written' = Append(written,
                                            WriteEvent(EpochFile(epoch), data))
                   ELSE UNCHANGED <<disk, written>>
    /\ UNCHANGED <<run, args, model_args, encoder, decoder, optimizer,
                   scheduler, loopVars, fwd, iterTrace, lrUsed, lrLeft, begun,
                   cmdline>>

FinalSave ==
    /\ pc = "final_save"
    /\ LET data == [encoder |-> encoder, decoder |-> decoder]
       IN /\ disk' = Saved(FinalFile, data)
          /\ written' = Append(written, WriteEvent(FinalFile, data))
    /\ pc' = "done"
    /\ UNCHANGED <<run, error, args, model_args, encoder, decoder, optimizer,
                   scheduler, loopVars, fwd, iterTrace, lrUsed, lrLeft, begun,
                   cmdline>>

\* ------------------------------------------------------------------------
\* the script has ended; a later run starts on the same checkpoint directory
\* ------------------------------------------------------------------------
LaterRun ==
    /\ run = "first"
    /\ pc \in {"done", "crashed"}
    /\ run' = "later"
    /\ pc' = "start"
    /\ error' = "none"
    /\ args' = NoArgs
    /\ model_args' = [num_epochs |-> -1]
    /\ encoder' = NoModule
    /\ decoder' = NoModule
    /\ optimizer' = NoOptimizer
    /\ scheduler' = NoScheduler
    /\ epoch' = 0
    /\ i' = 0
    /\ fwd' = "none"
    /\ written' = <<>>
    /\ iterTrace' = <<>>
    /\ lrUsed' = <<0, 1>>
    /\ lrLeft' = <<0, 1>>
    /\ begun' = NoStart
    /\ cmdline' = NoArgs
    /\ UNCHANGED disk

Next ==
    \/ Setup
    \/ EpochLoop
    \/ BatchLoop
    \/ ZeroGrad
    \/ EncoderForward
    \/ DecoderForward
    \/ Criterion
    \/ Backward
    \/ OptimizerStep
    \/ LrDecay
    \/ Checkpoint
    \/ FinalSave
    \/ LaterRun

Spec == Init /\ [][Next]_vars

\* ------------------------------------------------------------------------
\* vocabulary of the properties
\* ------------------------------------------------------------------------
IterationPcs == {"zero_grad", "encoder", "decoder", "criterion", "backward",
                 "opt_step", "lr_decay"}

IterationOrder == <<"zero_grad", "encoder", "decoder", "criterion",
                    "backward", "opt_step", "lr_decay">>

IsPrefix(s, t) ==
    /\ Len(s) <= Len(t)
    /\ \A k \in 1..Len(s) : s[k] = t[k]

\* e is a multiple of s (for e >= 1)
IsMultiple(e, s) == \E k \in (-e)..e : e = k * s

\* the files this run has written so far
WrittenEpoch(e) ==
    \E k \in 1..Len(written) : written[k].name = EpochFile(e)

\* the body of epoch e has been left (normally, or by the error raised in
\* its checkpoint test)
EpochOver(e) ==
    \/ epoch > e
    \/ epoch = e /\ pc \in {"epoch_loop", "final_save", "done"}
    \/ epoch = e /\ pc = "crashed" /\ error = "ZeroDivisionError"

\* the run has built its optimizer (it got past line 124)
Training == begun # NoStart

\* ------------------------------------------------------------------------
\* C1: every file a run writes (each model_epoch_<n>.pth and model_final.pth)
\* holds the encoder, the decoder and the optimizer's learning rate as they
\* are at the moment of writing.
\* ------------------------------------------------------------------------
C1_EveryFileHasParamsAndLr ==
    \A k \in 1..Len(written) :
        LET w == written[k]
        IN /\ "encoder" \in DOMAIN w.data
           /\ "decoder" \in DOMAIN w.data
           /\ "lr" \in DOMAIN w.data
           /\ w.data.encoder = w.encoder
           /\ w.data.decoder = w.decoder
           /\ w.data.lr = w.lr

\* ------------------------------------------------------------------------
\* C2: for every epoch e of the epoch loop (1..num_epochs of line 143),
\* model_epoch_<e>.pth is written iff e is a multiple of save_step; it is
\* written at the end of epoch e: after all iter_per_epoch iterations of
\* epoch e and before any iteration of epoch e+1.
\* ------------------------------------------------------------------------
C2_PeriodicCheckpoints ==
    /\ \A e \in 1..model_args.num_epochs :
          /\ EpochOver(e) => (WrittenEpoch(e) <=> IsMultiple(e, args.save_step))
          /\ ~EpochOver(e) => ~WrittenEpoch(e)
    /\ \A k \in 1..Len(written) :
          LET w == written[k]
          IN w.name.kind = "model_epoch" =>
                /\ w.name.n \in 1..model_args.num_epochs
                /\ w.epoch = w.name.n
                /\ w.i = args.iter_per_epoch
                /\ w.pc = "checkpoint"
                /\ w.encoder.ver - begun.encoder.ver
                      = w.name.n * args.iter_per_epoch
    /\ pc = "done" => epoch = IF model_args.num_epochs > 0
                                THEN model_args.num_epochs ELSE 0

C2_Witness ==
    /\ pc = "done"
    /\ args.save_step = 2
    /\ model_args.num_epochs = 2
    /\ WrittenEpoch(2)
    /\ ~WrittenEpoch(1)

\* ------------------------------------------------------------------------
\* C3: in every iteration the steps happen once each in the order zero_grad,
\* encoder, decoder, loss, backward, optimizer step, and the learning rate
\* changes only after the optimizer step: the optimizer step of an iteration
\* uses the learning rate the previous iteration (or the set-up) left.
\* ------------------------------------------------------------------------
C3_IterationOrder ==
    /\ IsPrefix(iterTrace, IterationOrder)
    /\ pc \in IterationPcs =>
          /\ Len(iterTrace) < Len(IterationOrder)
          /\ IterationOrder[Len(iterTrace) + 1] = pc
          /\ optimizer.lr = lrLeft
    /\ (Training /\ pc \notin IterationPcs /\ (i > 0 \/ epoch > 1)) =>
          iterTrace = IterationOrder
    /\ pc = "lr_decay" =>
          /\ lrUsed = lrLeft
          /\ encoder.ver - begun.encoder.ver
                = (epoch - 1) * args.iter_per_epoch + i + 1
    /\ pc \in IterationPcs \ {"lr_decay"} =>
          encoder.ver - begun.encoder.ver
             = (epoch - 1) * args.iter_per_epoch + i

C3_Witness ==
    /\ pc = "lr_decay"
    /\ i = 1
    /\ lrUsed # begun.lr
    /\ lrUsed = lrLeft

\* ------------------------------------------------------------------------
\* C4: for a run started with lr >= min_lr and 0 < lr_decay_rate <= 1, the
\* optimizer's learning rate is never below min_lr.
\* ------------------------------------------------------------------------
C4_LrNeverBelowMin ==
    (/\ Training
     /\ RLeq(args.min_lr, begun.lr)
     /\ RLess(<<0, 1>>, args.lr_decay_rate)
     /\ RLeq(args.lr_decay_rate, <<1, 1>>))
        => RLeq(args.min_lr, optimizer.lr)

\* ------------------------------------------------------------------------
\* C5: a run given, as -load_path, a file an earlier run wrote loads it
\* without error and starts training with the saved encoder, the saved
\* decoder and the saved learning rate.
\* ------------------------------------------------------------------------
C5_AnyWrittenFileLoads ==
    cmdline.load_path # NoPath =>
        /\ error # "KeyError"
        /\ (pc = "epoch_loop" /\ epoch = 0) =>
              /\ encoder = disk[cmdline.load_path].encoder
              /\ decoder = disk[cmdline.load_path].decoder
              /\ optimizer.lr = disk[cmdline.load_path].lr

\* ------------------------------------------------------------------------
\* C6: the number of epochs a run trains equals its -num_epochs option, for
\* a fresh run and for a run resumed with -load_path.
\* ------------------------------------------------------------------------
C6_EpochsTrainedEqualOption ==
    pc = "done" => epoch = cmdline.num_epochs

====
